---- MODULE Spec2Model ----
(***************************************************************************)
(* Invoice financial computation and payment/status reconciliation of      *)
(* backend/app/crud/crud_invoice.py.                                       *)
(*                                                                         *)
(* Money is counted in cents (a Python float holding a 2-decimal amount),  *)
(* quantities in quarters of a unit (QtyDen), percentages as integers.     *)
(* Python None is Absent (-1); a field missing from a request's            *)
(* model_fields_set is Unset (-2).                                         *)
(***************************************************************************)
EXTENDS Integers, Sequences, FiniteSets, TLC

VARIABLES
    tie,          \* how round() resolves an exact half cent (depends on the float's binary value)
    invoices,     \* the invoices table: a sequence of invoice rows (index = id), each with its line_items
    lastOp,       \* the last operation committed on the invoices table, with its inputs
    calcItems,    \* calculator harness: the line items handed to the calculator
    calcTax,      \* calculator harness: tax_percentage argument
    calcDisc,     \* calculator harness: discount_percentage argument
    calcOut,      \* calculator harness: the values returned
    txn,          \* concurrent requests: each database session's position and what it has read
    chat          \* process_user_message: its loop counters, the model response in hand, its result

vars == <<tie, invoices, lastOp, calcItems, calcTax, calcDisc, calcOut, txn, chat>>

\* ---------------------------------------------------------------- bounds
MaxPrice == 11        \* the larger of the two prices drawn, in cents
MaxQty == 5           \* the non-zero quantity drawn, in quarters of a unit
MaxCalcItems == 2     \* line items handed to the calculator harness
MaxItems == 2         \* line items held by a stored invoice
QtyDen == 4           \* quantities are counted in quarters
MaxPaid == 40         \* recorded payments stop once amount_paid would pass this many cents
MaxInvoices == 3      \* rows of the invoices table

Absent == -1
Unset == -2
NoString == "None"    \* None in a text column or a text field of a request

TieRules == {"even", "up", "down"}
PctSet == {Absent, 0, 30, 100}

UNIT == "unit"
CARTON == "carton"
PricePerTypeEnum == {UNIT, CARTON}

DRAFT == "Draft"
UNPAID == "Unpaid"
PAID == "Paid"
PARTIALLY_PAID == "Partially Paid"
OVERDUE == "Overdue"
CANCELLED == "Cancelled"
InvoiceStatusEnum == {DRAFT, UNPAID, PAID, PARTIALLY_PAID, OVERDUE, CANCELLED}

PRO_FORMA == "Pro Forma"
COMMERCIAL == "Commercial"
PACKING_LIST == "PACKING_LIST"
InvoiceTypeEnum == {PRO_FORMA, COMMERCIAL}

\* ---------------------------------------------------------------- helpers
Min(a, b) == IF a <= b THEN a ELSE b

\* round(num / den) to the nearest integer; an exact half goes the way `tie` says
Round2(num, den) ==
    LET q == num \div den
        r == num % den
    IN  IF 2 * r < den THEN q
        ELSE IF 2 * r > den THEN q + 1
        ELSE IF tie = "up" THEN q + 1
        ELSE IF tie = "down" THEN q
        ELSE IF q % 2 = 0 THEN q ELSE q + 1

\* InvoiceItemCreate: price > 0, quantities absent or >= 0
InvoiceItemCreate(item_description, price, units, cartons, ppt) ==
    [item_description |-> item_description,
     price |-> price, quantity_units |-> units, quantity_cartons |-> cartons,
     price_per_type |-> ppt]

\* _calculate_line_item_total with the CARTON branch lost: quantity_units always wins
calculate_line_item_total_UnitsFirst(item_data) ==
    LET quantity ==
            IF item_data.quantity_units # Absent THEN item_data.quantity_units
            ELSE IF item_data.price_per_type = CARTON /\ item_data.quantity_cartons # Absent
            THEN item_data.quantity_cartons
            ELSE 0
    IN  Round2(item_data.price * quantity, QtyDen)

\* _calculate_line_item_total with `item_data.price or 1.0`: a zero price counts as 1.00
calculate_line_item_total_DefaultPrice(item_data) ==
    LET price == IF item_data.price = 0 THEN 100 ELSE item_data.price
        quantity ==
            IF item_data.price_per_type = CARTON /\ item_data.quantity_cartons # Absent
            THEN item_data.quantity_cartons
            ELSE IF item_data.quantity_units # Absent
            THEN item_data.quantity_units
            ELSE 0
    IN  Round2(price * quantity, QtyDen)

\* _calculate_line_item_total
calculate_line_item_total(item_data) ==
    LET price == item_data.price
        quantity ==
            IF item_data.price_per_type = CARTON /\ item_data.quantity_cartons # Absent
            THEN item_data.quantity_cartons
            ELSE IF item_data.quantity_units # Absent
            THEN item_data.quantity_units
            ELSE 0
    IN  Round2(price * quantity, QtyDen)

RECURSIVE SumLineTotals(_)
SumLineTotals(line_items_data) ==
    IF line_items_data = <<>> THEN 0
    ELSE calculate_line_item_total(Head(line_items_data)) + SumLineTotals(Tail(line_items_data))

\* calculate_invoice_financials with the tax taken on the discounted subtotal
calculate_invoice_financials_TaxAfterDiscount(line_items_data, tax_percentage, discount_percentage) ==
    LET subtotal == Round2(SumLineTotals(line_items_data), 1)
        raw_discount ==
            IF discount_percentage # Absent /\ discount_percentage > 0
            THEN Round2(subtotal * discount_percentage, 100) ELSE 0
        calculated_discount_amount == Min(raw_discount, subtotal)
        calculated_tax_amount ==
            IF tax_percentage # Absent /\ tax_percentage > 0
            THEN Round2((subtotal - calculated_discount_amount) * tax_percentage, 100) ELSE 0
    IN  [subtotal |-> subtotal,
         tax |-> calculated_tax_amount,
         discount |-> calculated_discount_amount,
         total |-> subtotal + calculated_tax_amount - calculated_discount_amount]

calculate_invoice_financials(line_items_data, tax_percentage, discount_percentage) ==
    LET subtotal == Round2(SumLineTotals(line_items_data), 1)
        calculated_tax_amount ==
            IF tax_percentage # Absent /\ tax_percentage > 0
            THEN Round2(subtotal * tax_percentage, 100) ELSE 0
        raw_discount ==
            IF discount_percentage # Absent /\ discount_percentage > 0
            THEN Round2(subtotal * discount_percentage, 100) ELSE 0
        calculated_discount_amount == Min(raw_discount, subtotal)
    IN  [subtotal |-> subtotal,
         tax |-> calculated_tax_amount,
         discount |-> calculated_discount_amount,
         total |-> subtotal + calculated_tax_amount - calculated_discount_amount]

\* ---------------------------------------------------------------- stored rows
\* InvoiceItemModel(**item_data.model_dump(), line_total=...)
\* the weight columns are nullable and no field of InvoiceItemCreate feeds them
InvoiceItemModel(item_data, line_total) ==
    [item_description |-> item_data.item_description,
     price |-> item_data.price, quantity_units |-> item_data.quantity_units,
     quantity_cartons |-> item_data.quantity_cartons,
     price_per_type |-> item_data.price_per_type, line_total |-> line_total,
     net_weight_kgs |-> Absent, gross_weight_kgs |-> Absent, measurement_cbm |-> Absent]

\* the InvoiceItemCreate built from a stored line item before every recalculation
ItemCreateOf(li_orm) ==
    InvoiceItemCreate(li_orm.item_description, li_orm.price, li_orm.quantity_units,
                      li_orm.quantity_cartons, li_orm.price_per_type)

ItemCreatesOf(line_items) == [k \in 1..Len(line_items) |-> ItemCreateOf(line_items[k])]

\* InvoiceItemBase declares price: float = Field(..., gt=0), so building the
\* InvoiceItemCreate of a stored line item raises unless its price is positive
InvoiceItemBaseAccepts(li_orm) == li_orm.price > 0

\* every stored line item passes the validation of the recalculation loop
RecalculationAccepts(line_items) ==
    \A k \in 1..Len(line_items) : InvoiceItemBaseAccepts(line_items[k])

NewLineItems(line_items_data) ==
    [k \in 1..Len(line_items_data) |->
        InvoiceItemModel(line_items_data[k], calculate_line_item_total(line_items_data[k]))]

\* `invoice_in.tax_amount or 0.0`
OrZero(v) == IF v = Unset \/ v = Absent THEN 0 ELSE v

create_invoice_with_items(invoice_in) ==
    LET f == calculate_invoice_financials(invoice_in.line_items,
                                          invoice_in.tax_percentage,
                                          invoice_in.discount_percentage)
    IN  [invoice_number |-> invoice_in.invoice_number,
         due_date |-> invoice_in.due_date,
         currency |-> invoice_in.currency,
         organization_id |-> invoice_in.organization_id,
         customer_id |-> invoice_in.customer_id,
         comments_notes |-> invoice_in.comments_notes,
         container_number |-> invoice_in.container_number,
         seal_number |-> invoice_in.seal_number,
         hs_code |-> invoice_in.hs_code,
         bl_number |-> NoString,
         invoice_type |-> invoice_in.invoice_type,
         status |-> invoice_in.status,
         tax_percentage |-> invoice_in.tax_percentage,
         discount_percentage |-> invoice_in.discount_percentage,
         subtotal_amount |-> f.subtotal,
         tax_amount |-> IF invoice_in.tax_percentage # Absent
                        THEN f.tax ELSE OrZero(invoice_in.tax_amount),
         discount_amount |-> IF invoice_in.discount_percentage # Absent
                             THEN f.discount ELSE OrZero(invoice_in.discount_amount),
         total_amount |-> f.total,
         amount_paid |-> 0,
         line_items |-> NewLineItems(invoice_in.line_items)]

\* a header field after the setattr loop: the patch's value when the field was sent
Patched(sent, stored) == IF sent # Unset THEN sent ELSE stored

\* model_dump() without exclude_unset: a text field the patch leaves out is
\* dumped as None and overwrites the stored value
PatchedText_NoExcludeUnset(sent, stored) == IF sent # "Unset" THEN sent ELSE NoString

\* the same for a text or enum field
PatchedText(sent, stored) == IF sent # "Unset" THEN sent ELSE stored

\* the inference without the DRAFT / CANCELLED shield: a zero amount always gives UNPAID
InferStatus_NoShield(status, amount_paid, total_amount) ==
    IF amount_paid >= total_amount /\ total_amount > 0 THEN PAID
    ELSE IF amount_paid > 0 /\ amount_paid < total_amount THEN PARTIALLY_PAID
    ELSE IF amount_paid <= 0 THEN UNPAID
    ELSE status

\* the inference with DRAFT and CANCELLED shielded from every amount, not only from zero
InferStatus_ShieldClosed(status, amount_paid, total_amount) ==
    IF status \in {DRAFT, CANCELLED} THEN status
    ELSE IF amount_paid >= total_amount /\ total_amount > 0 THEN PAID
    ELSE IF amount_paid > 0 /\ amount_paid < total_amount THEN PARTIALLY_PAID
    ELSE IF amount_paid <= 0 THEN UNPAID
    ELSE status

\* the amount-driven status inference (runs only when the patch has no status)
InferStatus(status, amount_paid, total_amount) ==
    IF amount_paid >= total_amount /\ total_amount > 0 THEN PAID
    ELSE IF amount_paid > 0 /\ amount_paid < total_amount THEN PARTIALLY_PAID
    ELSE IF amount_paid <= 0 /\ status \notin {DRAFT, CANCELLED} THEN UNPAID
    ELSE status

\* the explicit-status branch without its PAID case
AmountForStatus_NoPaidCase(requested_status, requested_amount_paid, original_status, amount_paid, total_amount) ==
    IF requested_status \in {UNPAID, OVERDUE, CANCELLED}
    THEN (IF original_status # PARTIALLY_PAID /\ requested_amount_paid = Absent THEN 0
          ELSE IF requested_amount_paid # Absent THEN requested_amount_paid
          ELSE amount_paid)
    ELSE IF requested_status = DRAFT /\ requested_amount_paid = Absent THEN 0
    ELSE amount_paid

\* the explicit-status branch resetting amount_paid whatever the original status
AmountForStatus_AlwaysReset(requested_status, requested_amount_paid, original_status, amount_paid, total_amount) ==
    IF requested_status = PAID
    THEN (IF requested_amount_paid # Absent THEN requested_amount_paid ELSE total_amount)
    ELSE IF requested_status \in {UNPAID, OVERDUE, CANCELLED}
    THEN (IF requested_amount_paid = Absent THEN 0 ELSE requested_amount_paid)
    ELSE IF requested_status = DRAFT /\ requested_amount_paid = Absent THEN 0
    ELSE amount_paid

\* amount_paid after the explicit-status branch
AmountForStatus(requested_status, requested_amount_paid, original_status, amount_paid, total_amount) ==
    IF requested_status = PAID
    THEN (IF requested_amount_paid # Absent THEN requested_amount_paid ELSE total_amount)
    ELSE IF requested_status \in {UNPAID, OVERDUE, CANCELLED}
    THEN (IF original_status # PARTIALLY_PAID /\ requested_amount_paid = Absent THEN 0
          ELSE IF requested_amount_paid # Absent THEN requested_amount_paid
          ELSE amount_paid)
    ELSE IF requested_status = DRAFT /\ requested_amount_paid = Absent THEN 0
    ELSE amount_paid

\* the amount branch inferring the status even when the patch names one
ReconciledStatus_AlwaysInfer(requested_status, requested_amount_paid, status, amount_paid, total_amount) ==
    IF requested_amount_paid # Absent
    THEN InferStatus(status, amount_paid, total_amount) ELSE status

\* status after the amount branch: inferred only `if requested_status is None`
ReconciledStatus(requested_status, requested_amount_paid, status, amount_paid, total_amount) ==
    IF requested_amount_paid # Absent /\ requested_status = "Unset"
    THEN InferStatus(status, amount_paid, total_amount) ELSE status

update_invoice_with_items(db_invoice, invoice_in) ==
    LET original_status == db_invoice.status
        invoice_type == PatchedText(invoice_in.invoice_type, db_invoice.invoice_type)
        tax_percentage == Patched(invoice_in.tax_percentage, db_invoice.tax_percentage)
        discount_percentage == Patched(invoice_in.discount_percentage, db_invoice.discount_percentage)
        header_tax_amount == Patched(invoice_in.tax_amount, db_invoice.tax_amount)
        header_discount_amount == Patched(invoice_in.discount_amount, db_invoice.discount_amount)
        line_items == IF invoice_in.line_items_set
                      THEN NewLineItems(invoice_in.line_items) ELSE db_invoice.line_items
        line_items_for_calculation ==
            IF invoice_in.line_items_set
            THEN invoice_in.line_items ELSE ItemCreatesOf(db_invoice.line_items)
        f == calculate_invoice_financials(line_items_for_calculation,
                                          tax_percentage, discount_percentage)
        total_amount == f.total
        requested_amount_paid ==
            IF invoice_in.amount_paid = Unset THEN Absent ELSE invoice_in.amount_paid
        requested_status == invoice_in.status
        status1 == IF requested_status # "Unset" THEN requested_status ELSE db_invoice.status
        amount1 == IF requested_status # "Unset"
                   THEN AmountForStatus(requested_status, requested_amount_paid,
                                        original_status, db_invoice.amount_paid, total_amount)
                   ELSE db_invoice.amount_paid
        amount2 == IF requested_amount_paid # Absent THEN requested_amount_paid ELSE amount1
        status2 == ReconciledStatus(requested_status, requested_amount_paid,
                                    status1, amount2, total_amount)
    IN  [invoice_number |-> PatchedText(invoice_in.invoice_number, db_invoice.invoice_number),
         due_date |-> PatchedText(invoice_in.due_date, db_invoice.due_date),
         currency |-> PatchedText(invoice_in.currency, db_invoice.currency),
         organization_id |-> db_invoice.organization_id,
         customer_id |-> PatchedText(invoice_in.customer_id, db_invoice.customer_id),
         comments_notes |-> PatchedText(invoice_in.comments_notes, db_invoice.comments_notes),
         container_number |-> PatchedText(invoice_in.container_number, db_invoice.container_number),
         seal_number |-> PatchedText(invoice_in.seal_number, db_invoice.seal_number),
         hs_code |-> PatchedText(invoice_in.hs_code, db_invoice.hs_code),
         bl_number |-> db_invoice.bl_number,
         invoice_type |-> invoice_type,
         status |-> status2,
         tax_percentage |-> tax_percentage,
         discount_percentage |-> discount_percentage,
         subtotal_amount |-> f.subtotal,
         tax_amount |-> IF tax_percentage # Absent THEN f.tax ELSE header_tax_amount,
         discount_amount |-> IF discount_percentage # Absent
                             THEN f.discount ELSE header_discount_amount,
         total_amount |-> total_amount,
         amount_paid |-> amount2,
         line_items |-> line_items]

\* a line-item operation that also runs the amount-driven status inference on
\* the new total
WithRecalculatedTotals_Reinfers(parent_invoice, line_items) ==
    LET f == calculate_invoice_financials(ItemCreatesOf(line_items),
                                          parent_invoice.tax_percentage,
                                          parent_invoice.discount_percentage)
    IN  [parent_invoice EXCEPT !.line_items = line_items,
                               !.subtotal_amount = f.subtotal,
                               !.tax_amount = f.tax,
                               !.discount_amount = f.discount,
                               !.total_amount = f.total,
                               !.status = InferStatus(parent_invoice.status,
                                                      parent_invoice.amount_paid, f.total)]

\* the parent's four totals as every line-item operation rewrites them
WithRecalculatedTotals(parent_invoice, line_items) ==
    LET f == calculate_invoice_financials(ItemCreatesOf(line_items),
                                          parent_invoice.tax_percentage,
                                          parent_invoice.discount_percentage)
    IN  [parent_invoice EXCEPT !.line_items = line_items,
                               !.subtotal_amount = f.subtotal,
                               !.tax_amount = f.tax,
                               !.discount_amount = f.discount,
                               !.total_amount = f.total]

add_line_item_to_invoice(parent_invoice, item_in) ==
    WithRecalculatedTotals(parent_invoice,
        Append(parent_invoice.line_items,
               InvoiceItemModel(item_in, calculate_line_item_total(item_in))))

\* setattr of every field of the InvoiceItemUpdate that was sent, then the item's own total
UpdatedLineItem(db_line_item, item_in) ==
    LET it == InvoiceItemCreate(
                  PatchedText(item_in.item_description, db_line_item.item_description),
                  Patched(item_in.price, db_line_item.price),
                  Patched(item_in.quantity_units, db_line_item.quantity_units),
                  Patched(item_in.quantity_cartons, db_line_item.quantity_cartons),
                  PatchedText(item_in.price_per_type, db_line_item.price_per_type))
    IN  [db_line_item EXCEPT !.item_description = it.item_description,
                             !.price = it.price,
                             !.quantity_units = it.quantity_units,
                             !.quantity_cartons = it.quantity_cartons,
                             !.price_per_type = it.price_per_type,
                             !.line_total = calculate_line_item_total(it)]

update_invoice_line_item(parent_invoice, k, item_in) ==
    WithRecalculatedTotals(parent_invoice,
        [parent_invoice.line_items EXCEPT ![k] = UpdatedLineItem(@, item_in)])

RemoveAt(seq, k) == [j \in 1..(Len(seq) - 1) |-> IF j < k THEN seq[j] ELSE seq[j + 1]]

delete_invoice_line_item(parent_invoice, k) ==
    WithRecalculatedTotals(parent_invoice, RemoveAt(parent_invoice.line_items, k))

\* record-payment of the Payment & Status Reconciler: the payment is added to
\* amount_paid, then the amount-driven inference runs, clamping a full payment
\* to the total
record_payment_for_invoice(db_invoice, amount_paid_now) ==
    LET new_amount_paid == db_invoice.amount_paid + amount_paid_now
        total_amount == db_invoice.total_amount
    IN  [db_invoice EXCEPT
            !.status = InferStatus(db_invoice.status, new_amount_paid, total_amount),
            !.amount_paid = IF new_amount_paid >= total_amount /\ total_amount > 0
                            THEN total_amount ELSE new_amount_paid]

\* ---------------------------------------------------------------- document transformer
\* `if pro_forma_invoice.invoice_type != InvoiceTypeEnum.PRO_FORMA: raise ValueError`
TransformAllowed_AnyType(pro_forma_invoice) == TRUE

TransformAllowed(pro_forma_invoice) == pro_forma_invoice.invoice_type = PRO_FORMA

\* the endpoint's 400 for a source that is not COMMERCIAL
PackingListAllowed(commercial_invoice) == commercial_invoice.invoice_type = COMMERCIAL

\* `new_invoice_number or f"{...}-COMM"`: None and the empty string both fall back
NumberOr(new_number, fallback) ==
    IF new_number = NoString \/ new_number = "" THEN fallback ELSE new_number

\* the transformation carrying the source's status over to the new invoice
transform_pro_forma_to_commercial_KeepsStatus(pro_forma_invoice, new_invoice_number) ==
    [create_invoice_with_items(
        [invoice_number |-> NumberOr(new_invoice_number,
                                     pro_forma_invoice.invoice_number \o "-COMM"),
         due_date |-> pro_forma_invoice.due_date,
         currency |-> pro_forma_invoice.currency,
         organization_id |-> pro_forma_invoice.organization_id,
         customer_id |-> pro_forma_invoice.customer_id,
         comments_notes |-> pro_forma_invoice.comments_notes,
         container_number |-> NoString, seal_number |-> NoString, hs_code |-> NoString,
         invoice_type |-> COMMERCIAL,
         status |-> DRAFT,
         tax_percentage |-> pro_forma_invoice.tax_percentage,
         discount_percentage |-> pro_forma_invoice.discount_percentage,
         tax_amount |-> Absent, discount_amount |-> 0, total_amount |-> Absent,
         line_items |-> ItemCreatesOf(pro_forma_invoice.line_items)])
     EXCEPT !.status = pro_forma_invoice.status]

\* the transformation copying the stored amounts of its source onto the new row
transform_pro_forma_to_commercial_CopiesAmounts(pro_forma_invoice, new_invoice_number) ==
    [create_invoice_with_items(
        [invoice_number |-> NumberOr(new_invoice_number,
                                     pro_forma_invoice.invoice_number \o "-COMM"),
         due_date |-> pro_forma_invoice.due_date,
         currency |-> pro_forma_invoice.currency,
         organization_id |-> pro_forma_invoice.organization_id,
         customer_id |-> pro_forma_invoice.customer_id,
         comments_notes |-> pro_forma_invoice.comments_notes,
         container_number |-> NoString, seal_number |-> NoString, hs_code |-> NoString,
         invoice_type |-> COMMERCIAL,
         status |-> DRAFT,
         tax_percentage |-> pro_forma_invoice.tax_percentage,
         discount_percentage |-> pro_forma_invoice.discount_percentage,
         tax_amount |-> Absent, discount_amount |-> 0, total_amount |-> Absent,
         line_items |-> ItemCreatesOf(pro_forma_invoice.line_items)])
     EXCEPT !.subtotal_amount = pro_forma_invoice.subtotal_amount,
            !.tax_amount = pro_forma_invoice.tax_amount,
            !.discount_amount = pro_forma_invoice.discount_amount,
            !.total_amount = pro_forma_invoice.total_amount,
            !.amount_paid = pro_forma_invoice.amount_paid]

\* the new row built by transform_pro_forma_to_commercial: an InvoiceCreate from the
\* listed fields of the source (the others keep the schema's defaults), then
\* create_invoice_with_items
transform_pro_forma_to_commercial(pro_forma_invoice, new_invoice_number) ==
    create_invoice_with_items(
        [invoice_number |-> NumberOr(new_invoice_number,
                                     pro_forma_invoice.invoice_number \o "-COMM"),
         due_date |-> pro_forma_invoice.due_date,
         currency |-> pro_forma_invoice.currency,
         organization_id |-> pro_forma_invoice.organization_id,
         customer_id |-> pro_forma_invoice.customer_id,
         comments_notes |-> pro_forma_invoice.comments_notes,
         container_number |-> NoString, seal_number |-> NoString, hs_code |-> NoString,
         invoice_type |-> COMMERCIAL,
         status |-> DRAFT,
         tax_percentage |-> pro_forma_invoice.tax_percentage,
         discount_percentage |-> pro_forma_invoice.discount_percentage,
         tax_amount |-> Absent, discount_amount |-> 0, total_amount |-> Absent,
         line_items |-> ItemCreatesOf(pro_forma_invoice.line_items)])

\* a source line item as the packing list's creation request carries it: price 0
PackingListItem(li_orm) ==
    InvoiceItemCreate(li_orm.item_description, 0, li_orm.quantity_units,
                      li_orm.quantity_cartons, li_orm.price_per_type)

\* generatePackingListFromCommercial of the Document Transformer: the header and
\* shipping metadata copied, prices forced to 0, the financial fields zeroed, the
\* weights and volume carried through, then createInvoice
create_packing_list_from_commercial(commercial_invoice, new_packing_list_number) ==
    LET created == create_invoice_with_items(
            [invoice_number |-> IF new_packing_list_number = NoString
                                THEN "PL-" \o commercial_invoice.invoice_number
                                ELSE new_packing_list_number,
             due_date |-> commercial_invoice.due_date,
             currency |-> commercial_invoice.currency,
             organization_id |-> commercial_invoice.organization_id,
             customer_id |-> commercial_invoice.customer_id,
             comments_notes |-> commercial_invoice.comments_notes,
             container_number |-> commercial_invoice.container_number,
             seal_number |-> commercial_invoice.seal_number,
             hs_code |-> commercial_invoice.hs_code,
             invoice_type |-> PACKING_LIST,
             status |-> DRAFT,
             tax_percentage |-> 0,
             discount_percentage |-> 0,
             tax_amount |-> 0, discount_amount |-> 0, total_amount |-> 0,
             line_items |-> [k \in 1..Len(commercial_invoice.line_items) |->
                                PackingListItem(commercial_invoice.line_items[k])]])
    IN  [created EXCEPT
            !.bl_number = commercial_invoice.bl_number,
            !.line_items =
                [k \in 1..Len(created.line_items) |->
                    [created.line_items[k] EXCEPT
                        !.net_weight_kgs = commercial_invoice.line_items[k].net_weight_kgs,
                        !.gross_weight_kgs = commercial_invoice.line_items[k].gross_weight_kgs,
                        !.measurement_cbm = commercial_invoice.line_items[k].measurement_cbm]]]

\* ---------------------------------------------------------------- calculator harness
QtyOpt == {Absent, 0, MaxQty}
PriceSet == {1, MaxPrice}
CalcItemSet ==
    { InvoiceItemCreate("Widget", p, u, c, t) :
        p \in PriceSet, u \in QtyOpt, c \in QtyOpt, t \in PricePerTypeEnum }

SeqsUpTo(S, n) == UNION { [1..k -> S] : k \in 0..n }

NoOut == [kind |-> "none", lines |-> <<>>, subtotal |-> 0, tax |-> 0, discount |-> 0, total |-> 0]
NoOp == [op |-> "none", id |-> 0, status |-> "Unset", amount_paid |-> Unset,
         invoice_number |-> NoString]

\* no database session open beside the one of the operation modelled
Sessions == {1, 2}
IdleSession == [pc |-> "idle", invoice_id |-> 0, db_item |-> <<>>, line_items |-> <<>>]
NoTxn == [session \in Sessions |-> IdleSession]

\* no message being processed
NoChat == [pc |-> "idle", tool_iterations |-> 0, tool_calls |-> 0,
           current_response |-> "none", ai_response_text |-> "",
           follow_up_question_for_user |-> NoString]

CalcInit ==
    /\ tie \in TieRules
    /\ invoices = <<>>
    /\ lastOp = NoOp
    /\ calcItems \in SeqsUpTo(CalcItemSet, MaxCalcItems)
    /\ calcTax \in PctSet
    /\ calcDisc \in PctSet
    /\ calcOut = NoOut
    /\ txn = NoTxn
    /\ chat = NoChat

\* one call of _calculate_line_item_total
ComputeLineTotal ==
    /\ calcOut.kind = "none"
    /\ Len(calcItems) = 1
    /\ calcOut' = [NoOut EXCEPT !.kind = "line",
                     !.lines = <<calculate_line_item_total(calcItems[1])>>]
    /\ UNCHANGED <<tie, invoices, lastOp, calcItems, calcTax, calcDisc, txn, chat>>

\* one call of calculate_invoice_financials; lines are the line_total values of its loop
ComputeFinancials ==
    /\ calcOut.kind = "none"
    /\ LET f == calculate_invoice_financials(calcItems, calcTax, calcDisc)
       IN  calcOut' = [kind |-> "financials",
                       lines |-> [k \in 1..Len(calcItems) |-> calculate_line_item_total(calcItems[k])],
                       subtotal |-> f.subtotal, tax |-> f.tax,
                       discount |-> f.discount, total |-> f.total]
    /\ UNCHANGED <<tie, invoices, lastOp, calcItems, calcTax, calcDisc, txn, chat>>

CalcNext == ComputeLineTotal \/ ComputeFinancials

SpecCalc == CalcInit /\ [][CalcNext]_vars

\* ---------------------------------------------------------------- requests drawn
ItemUnits == InvoiceItemCreate("Widget", MaxPrice, MaxQty, Absent, UNIT)
ItemCartonsPerUnit == InvoiceItemCreate("Gadget", MaxPrice, Absent, MaxQty, UNIT)
ItemSet == {ItemUnits, ItemCartonsPerUnit}

TaxChoices == {Absent, 30}
DiscountChoices == {Absent, 100}
ClientAmounts == {Unset, 7}
PayAmounts == {Unset, 0, 20}

InvoiceCreate ==
    [invoice_number : {"INV-001"},
     due_date : {NoString},
     currency : {"USD"},
     organization_id : {"org-1"},
     customer_id : {"cust-1"},
     comments_notes : {NoString},
     container_number : {NoString},
     seal_number : {NoString},
     hs_code : {NoString},
     invoice_type : {COMMERCIAL},
     status : {"Unset"} \cup InvoiceStatusEnum,
     tax_percentage : TaxChoices,
     discount_percentage : DiscountChoices,
     tax_amount : ClientAmounts,
     discount_amount : {Unset},
     total_amount : ClientAmounts,
     line_items : SeqsUpTo(ItemSet, MaxItems)]

EmptyPatch ==
    [invoice_number |-> "Unset", due_date |-> "Unset", currency |-> "Unset",
     customer_id |-> "Unset", comments_notes |-> "Unset", container_number |-> "Unset",
     seal_number |-> "Unset", hs_code |-> "Unset",
     status |-> "Unset", amount_paid |-> Unset, invoice_type |-> "Unset",
     tax_percentage |-> Unset, discount_percentage |-> Unset,
     tax_amount |-> Unset, discount_amount |-> Unset,
     subtotal_amount |-> Unset, total_amount |-> Unset,
     line_items_set |-> FALSE, line_items |-> <<>>]

\* what a patch carries next to status and amount_paid: at most one more field
LineItemParts ==
    {[EmptyPatch EXCEPT !.line_items_set = TRUE, !.line_items = l] : l \in SeqsUpTo(ItemSet, 1)}
PercentageParts ==
    {[EmptyPatch EXCEPT !.tax_percentage = v] : v \in TaxChoices}
    \cup {[EmptyPatch EXCEPT !.discount_percentage = v] : v \in DiscountChoices}
ClientAmountParts ==
    {[EmptyPatch EXCEPT !.tax_amount = v] : v \in ClientAmounts \ {Unset}}
    \cup {[EmptyPatch EXCEPT !.total_amount = v, !.subtotal_amount = v] : v \in ClientAmounts \ {Unset}}

WithPayment(o, st, a) == [o EXCEPT !.status = st, !.amount_paid = a]

InvoiceUpdate ==
    {WithPayment(o, st, a) :
        o \in {EmptyPatch} \cup LineItemParts,
        st \in {"Unset"} \cup InvoiceStatusEnum, a \in PayAmounts}
    \cup {WithPayment(o, PAID, Unset) : o \in PercentageParts}
    \cup {WithPayment(o, "Unset", 20) : o \in PercentageParts}
    \cup PercentageParts \cup ClientAmountParts

EmptyItemPatch ==
    [item_description |-> "Unset",
     price |-> Unset, quantity_units |-> Unset, quantity_cartons |-> Unset,
     price_per_type |-> "Unset"]

InvoiceItemUpdate ==
    {EmptyItemPatch}
    \cup {[EmptyItemPatch EXCEPT !.item_description = i.item_description,
                                 !.quantity_units = i.quantity_units,
                                 !.quantity_cartons = i.quantity_cartons,
                                 !.price_per_type = i.price_per_type] : i \in ItemSet}

\* ---------------------------------------------------------------- operations
Init ==
    /\ tie = "even"
    /\ invoices = <<>>
    /\ lastOp = NoOp
    /\ calcItems = <<>>
    /\ calcTax = Absent
    /\ calcDisc = Absent
    /\ calcOut = NoOut
    /\ txn = NoTxn
    /\ chat = NoChat

\* the operation just committed, with the status and amount_paid its request carried
Done(op, id, status, amount_paid) ==
    lastOp' = [op |-> op, id |-> id, status |-> status, amount_paid |-> amount_paid,
               invoice_number |-> NoString]

\* the InvoiceCreate parsed from a request: a status left out is DRAFT
InvoiceCreateParsed(invoice_in) ==
    [invoice_in EXCEPT !.status = IF @ = "Unset" THEN DRAFT ELSE @]

\* POST /invoices: the new row gets the next id
CreateInvoice(invoice_in) ==
    LET id == Len(invoices) + 1
    IN  /\ invoices' = Append(invoices, create_invoice_with_items(InvoiceCreateParsed(invoice_in)))
        /\ Done("create", id, invoice_in.status, Unset)
        /\ UNCHANGED <<tie, calcItems, calcTax, calcDisc, calcOut, txn, chat>>

\* the stored line items are rebuilt as InvoiceItemCreate only when the patch
\* brings no line items of its own
UpdateAccepts(db_invoice, invoice_in) ==
    IF invoice_in.line_items_set THEN TRUE ELSE RecalculationAccepts(db_invoice.line_items)

\* PUT /invoices/{id}
UpdateInvoice(id, invoice_in) ==
    /\ id \in DOMAIN invoices
    /\ UpdateAccepts(invoices[id], invoice_in)
    /\ invoices' = [invoices EXCEPT ![id] = update_invoice_with_items(@, invoice_in)]
    /\ Done("update", id, invoice_in.status, invoice_in.amount_paid)
    /\ UNCHANGED <<tie, calcItems, calcTax, calcDisc, calcOut, txn, chat>>

\* the same request on an invoice holding a line item the recalculation loop
\* cannot rebuild: the ValidationError leaves the handler before the commit
UpdateInvoiceRejected(id, invoice_in) ==
    /\ id \in DOMAIN invoices
    /\ ~UpdateAccepts(invoices[id], invoice_in)
    /\ UNCHANGED invoices
    /\ Done("update_error", id, invoice_in.status, invoice_in.amount_paid)
    /\ UNCHANGED <<tie, calcItems, calcTax, calcDisc, calcOut, txn, chat>>

AddLineItem(id, item_in) ==
    /\ id \in DOMAIN invoices
    /\ Len(invoices[id].line_items) < MaxItems
    /\ RecalculationAccepts(invoices[id].line_items)
    /\ invoices' = [invoices EXCEPT ![id] = add_line_item_to_invoice(@, item_in)]
    /\ Done("add_line_item", id, "Unset", Unset)
    /\ UNCHANGED <<tie, calcItems, calcTax, calcDisc, calcOut, txn, chat>>

UpdateLineItem(id, k, item_in) ==
    /\ id \in DOMAIN invoices
    /\ k \in DOMAIN invoices[id].line_items
    /\ RecalculationAccepts([invoices[id].line_items EXCEPT ![k] = UpdatedLineItem(@, item_in)])
    /\ invoices' = [invoices EXCEPT ![id] = update_invoice_line_item(@, k, item_in)]
    /\ Done("update_line_item", id, "Unset", Unset)
    /\ UNCHANGED <<tie, calcItems, calcTax, calcDisc, calcOut, txn, chat>>

DeleteLineItem(id, k) ==
    /\ id \in DOMAIN invoices
    /\ k \in DOMAIN invoices[id].line_items
    /\ RecalculationAccepts(RemoveAt(invoices[id].line_items, k))
    /\ invoices' = [invoices EXCEPT ![id] = delete_invoice_line_item(@, k)]
    /\ Done("delete_line_item", id, "Unset", Unset)
    /\ UNCHANGED <<tie, calcItems, calcTax, calcDisc, calcOut, txn, chat>>

Next ==
    \/ invoices = <<>> /\ \E invoice_in \in InvoiceCreate : CreateInvoice(invoice_in)
    \/ \E id \in DOMAIN invoices, invoice_in \in InvoiceUpdate : UpdateInvoice(id, invoice_in)
    \/ \E id \in DOMAIN invoices, item_in \in ItemSet : AddLineItem(id, item_in)
    \/ \E id \in DOMAIN invoices, k \in 1..MaxItems, item_in \in InvoiceItemUpdate :
          UpdateLineItem(id, k, item_in)
    \/ \E id \in DOMAIN invoices, k \in 1..MaxItems : DeleteLineItem(id, k)

Spec == Init /\ [][Next]_vars

\* ---------------------------------------------------------------- header patches
\* invoices whose header fields are all filled in
HeaderCreate ==
    [invoice_number : {"INV-001"},
     due_date : {"2026-12-31"},
     currency : {"USD"},
     organization_id : {"org-1"},
     customer_id : {"cust-1"},
     comments_notes : {"FOB"},
     container_number : {"CONT-1"},
     seal_number : {"SEAL-1"},
     hs_code : {NoString},
     invoice_type : InvoiceTypeEnum,
     status : {DRAFT, PAID},
     tax_percentage : TaxChoices,
     discount_percentage : {Absent},
     tax_amount : {Unset},
     discount_amount : {Unset},
     total_amount : {Unset},
     line_items : {<<>>, <<ItemUnits>>}]

\* patches that each send one header field (a new value, or an explicit null
\* for a nullable column), the invoice type, a percentage or the line items
HeaderPatches ==
    {EmptyPatch,
     [EmptyPatch EXCEPT !.invoice_number = "INV-002"],
     [EmptyPatch EXCEPT !.due_date = NoString],
     [EmptyPatch EXCEPT !.customer_id = "cust-2"],
     [EmptyPatch EXCEPT !.comments_notes = NoString],
     [EmptyPatch EXCEPT !.container_number = "CONT-2"],
     [EmptyPatch EXCEPT !.comments_notes = "CIF", !.container_number = NoString]}
    \cup {[EmptyPatch EXCEPT !.invoice_type = t] : t \in InvoiceTypeEnum}
    \cup {[EmptyPatch EXCEPT !.tax_percentage = v] : v \in TaxChoices}
    \cup LineItemParts

HeaderNext ==
    \/ invoices = <<>> /\ \E invoice_in \in HeaderCreate : CreateInvoice(invoice_in)
    \/ \E id \in DOMAIN invoices, invoice_in \in HeaderPatches : UpdateInvoice(id, invoice_in)

SpecHeader == Init /\ [][HeaderNext]_vars

\* ---------------------------------------------------------------- missing parent
\* a line item held by the caller, as get_invoice_line_item returned it
StoredLineItems == {InvoiceItemModel(i, calculate_line_item_total(i)) : i \in ItemSet}

\* add_line_item_to_invoice for an invoice_id that get_invoice does not find:
\* the ValueError is raised before anything is added to the session
AddLineItemNotFound(invoice_id, item_in) ==
    /\ invoice_id \notin DOMAIN invoices
    /\ UNCHANGED invoices
    /\ Done("add_line_item_error", invoice_id, "Unset", Unset)
    /\ UNCHANGED <<tie, calcItems, calcTax, calcDisc, calcOut, txn, chat>>

\* update_invoice_line_item for a line item whose invoice_id get_invoice does
\* not find: the fields are set on the object, then the ValueError is raised
\* before the commit
UpdateLineItemNotFound(invoice_id, db_line_item, item_in) ==
    /\ invoice_id \notin DOMAIN invoices
    /\ InvoiceItemBaseAccepts(UpdatedLineItem(db_line_item, item_in))
    /\ UNCHANGED invoices
    /\ Done("update_line_item_error", invoice_id, "Unset", Unset)
    /\ UNCHANGED <<tie, calcItems, calcTax, calcDisc, calcOut, txn, chat>>

\* delete_invoice_line_item for a line item whose invoice_id get_invoice does
\* not find: the deletion is committed and the line item returned, no error raised
DeleteLineItemNotFound(invoice_id, db_line_item) ==
    /\ invoice_id \notin DOMAIN invoices
    /\ UNCHANGED invoices
    /\ Done("delete_line_item", invoice_id, "Unset", Unset)
    /\ UNCHANGED <<tie, calcItems, calcTax, calcDisc, calcOut, txn, chat>>

OrphanNext ==
    \/ invoices = <<>> /\ \E invoice_in \in HeaderCreate : CreateInvoice(invoice_in)
    \/ \E id \in DOMAIN invoices, item_in \in ItemSet : AddLineItem(id, item_in)
    \/ \E id \in DOMAIN invoices, k \in 1..MaxItems, item_in \in InvoiceItemUpdate :
          UpdateLineItem(id, k, item_in)
    \/ \E id \in DOMAIN invoices, k \in 1..MaxItems : DeleteLineItem(id, k)
    \/ \E invoice_id \in 1..MaxInvoices, item_in \in ItemSet :
          AddLineItemNotFound(invoice_id, item_in)
    \/ \E invoice_id \in 1..MaxInvoices, db_line_item \in StoredLineItems,
           item_in \in InvoiceItemUpdate :
          UpdateLineItemNotFound(invoice_id, db_line_item, item_in)
    \/ \E invoice_id \in 1..MaxInvoices, db_line_item \in StoredLineItems :
          DeleteLineItemNotFound(invoice_id, db_line_item)

SpecOrphan == Init /\ [][OrphanNext]_vars

\* ---------------------------------------------------------------- concurrent requests
\* Every request has its own AsyncSession (get_db) on an engine created without
\* an isolation level, and get_invoice selects without FOR UPDATE: a session
\* sees the rows other sessions have committed plus the rows it has flushed.
RaceItems == {ItemUnits}

InFlight == {session \in Sessions : txn[session].pc \in {"flushed", "refreshed"}}

\* add_line_item_to_invoice up to its flush: the parent is found, the new row
\* is inserted in the session's transaction
BeginAddLineItem(session, id, item_in) ==
    /\ txn[session].pc = "idle"
    /\ id \in DOMAIN invoices
    /\ Len(invoices[id].line_items) + Cardinality(InFlight) < MaxItems
    /\ txn' = [txn EXCEPT ![session] =
                  [pc |-> "flushed", invoice_id |-> id,
                   db_item |-> InvoiceItemModel(item_in, calculate_line_item_total(item_in)),
                   line_items |-> <<>>]]
    /\ UNCHANGED <<tie, invoices, lastOp, calcItems, calcTax, calcDisc, calcOut, chat>>

\* db.refresh(parent_invoice, attribute_names=['line_items']): the committed
\* line items and the session's own new row
RefreshLineItems(session) ==
    /\ txn[session].pc = "flushed"
    /\ txn' = [txn EXCEPT ![session].pc = "refreshed",
                          ![session].line_items =
                              Append(invoices[txn[session].invoice_id].line_items,
                                     txn[session].db_item)]
    /\ UNCHANGED <<tie, invoices, lastOp, calcItems, calcTax, calcDisc, calcOut, chat>>

\* the totals computed from the line items the session read are written to the
\* parent row and the transaction commits: the new row joins the committed ones
CommitAddLineItem(session) ==
    /\ txn[session].pc = "refreshed"
    /\ LET id == txn[session].invoice_id
           computed == WithRecalculatedTotals(invoices[id], txn[session].line_items)
       IN  /\ invoices' = [invoices EXCEPT ![id] =
                   [@ EXCEPT !.line_items = Append(@, txn[session].db_item),
                             !.subtotal_amount = computed.subtotal_amount,
                             !.tax_amount = computed.tax_amount,
                             !.discount_amount = computed.discount_amount,
                             !.total_amount = computed.total_amount]]
           /\ Done("add_line_item", id, "Unset", Unset)
    /\ txn' = [txn EXCEPT ![session].pc = "done"]
    /\ UNCHANGED <<tie, calcItems, calcTax, calcDisc, calcOut, chat>>

RaceNext ==
    \/ invoices = <<>> /\ \E invoice_in \in HeaderCreate : CreateInvoice(invoice_in)
    \/ \E session \in Sessions, id \in DOMAIN invoices, item_in \in RaceItems :
          BeginAddLineItem(session, id, item_in)
    \/ \E session \in Sessions : RefreshLineItems(session)
    \/ \E session \in Sessions : CommitAddLineItem(session)

SpecRace == Init /\ [][RaceNext]_vars

\* ---------------------------------------------------------------- conversational tool loop
MAX_TOOL_ITERATIONS == 7

\* tools with an executor: one that only reads and one that writes
TOOL_EXECUTORS == {"get_invoices_for_user", "create_invoice_func"}

\* what the model can answer: a text, an empty text, a response whose .text
\* cannot be read, or a function call naming a tool, the clarifying question
\* or a name that is no tool
TextResponses == {"text", "empty_text", "no_text"}
ModelResponses ==
    TextResponses \cup TOOL_EXECUTORS \cup {"ask_clarifying_question", "made_up_tool"}

\* `while tool_iterations < MAX_TOOL_ITERATIONS` letting one more iteration in
WithinToolIterations_OffByOne(tool_iterations) == tool_iterations <= MAX_TOOL_ITERATIONS

\* `while tool_iterations < MAX_TOOL_ITERATIONS`
WithinToolIterations(tool_iterations) == tool_iterations < MAX_TOOL_ITERATIONS

\* ai_response_text of a response without function calls
TextOf(response) ==
    IF response = "text" THEN "text"
    ELSE IF response = "empty_text" THEN ""
    ELSE "no_text_notice"

\* the reply returned after the loop: the fallback when the bound was reached
\* and ai_response_text is empty
FinalReply(tool_iterations, ai_response_text) ==
    IF tool_iterations >= MAX_TOOL_ITERATIONS /\ ai_response_text = ""
    THEN "fallback" ELSE ai_response_text

\* the invoice create_invoice_func builds from the model's arguments
ChatInvoice ==
    [invoice_number |-> "INV-001", due_date |-> NoString, currency |-> "USD",
     organization_id |-> "org-1", customer_id |-> "cust-1", comments_notes |-> NoString,
     container_number |-> NoString, seal_number |-> NoString, hs_code |-> NoString,
     invoice_type |-> COMMERCIAL, status |-> DRAFT,
     tax_percentage |-> Absent, discount_percentage |-> Absent,
     tax_amount |-> Unset, discount_amount |-> Unset, total_amount |-> Unset,
     line_items |-> <<ItemUnits>>]

\* the executor of a tool: create_invoice_func adds a row (an error result once
\* the table is full), get_invoices_for_user only reads
ExecuteTool(tool_name) ==
    IF tool_name = "create_invoice_func" /\ Len(invoices) < MaxInvoices
    THEN /\ invoices' = Append(invoices, create_invoice_with_items(ChatInvoice))
         /\ Done("create", Len(invoices) + 1, DRAFT, Unset)
    ELSE UNCHANGED <<invoices, lastOp>>

\* process_user_message up to the loop: the first response of the model
ReceiveUserMessage(response) ==
    /\ chat.pc \in {"idle", "returned"}
    /\ chat' = [NoChat EXCEPT !.pc = "loop", !.current_response = response]
    /\ UNCHANGED <<tie, invoices, lastOp, calcItems, calcTax, calcDisc, calcOut, txn>>

\* the early returns: no client, no active organization, the first send_message raising
ServiceUnavailable ==
    /\ chat.pc \in {"idle", "returned"}
    /\ chat' = [NoChat EXCEPT !.pc = "returned", !.ai_response_text = "service_error"]
    /\ UNCHANGED <<tie, invoices, lastOp, calcItems, calcTax, calcDisc, calcOut, txn>>

\* one iteration of the while loop on the response in hand
ToolLoopIteration(next_response, send_ok) ==
    /\ chat.pc = "loop"
    /\ WithinToolIterations(chat.tool_iterations)
    /\ LET tool_iterations == chat.tool_iterations + 1
           tool_name == chat.current_response
       IN  IF tool_name \in TextResponses
           THEN /\ chat' = [chat EXCEPT !.pc = "returned",
                                        !.tool_iterations = tool_iterations,
                                        !.ai_response_text =
                                            FinalReply(tool_iterations, TextOf(tool_name))]
                /\ UNCHANGED <<invoices, lastOp>>
           ELSE IF tool_name = "ask_clarifying_question"
           THEN /\ chat' = [chat EXCEPT !.pc = "returned",
                                        !.tool_iterations = tool_iterations,
                                        !.ai_response_text = "question_to_user",
                                        !.follow_up_question_for_user = "question_to_user"]
                /\ UNCHANGED <<invoices, lastOp>>
           ELSE IF tool_name \in TOOL_EXECUTORS
           THEN /\ ExecuteTool(tool_name)
                /\ chat' = IF send_ok
                           THEN [chat EXCEPT !.tool_iterations = tool_iterations,
                                             !.tool_calls = @ + 1,
                                             !.current_response = next_response]
                           ELSE [chat EXCEPT !.pc = "returned",
                                             !.tool_iterations = tool_iterations,
                                             !.tool_calls = @ + 1,
                                             !.ai_response_text = "send_error"]
           ELSE /\ chat' = [chat EXCEPT !.pc = "returned",
                                        !.tool_iterations = tool_iterations,
                                        !.ai_response_text = "unknown_tool_error"]
                /\ UNCHANGED <<invoices, lastOp>>
    /\ UNCHANGED <<tie, calcItems, calcTax, calcDisc, calcOut, txn>>

\* the loop condition fails: the check after the loop, then the return
ToolLoopEnd ==
    /\ chat.pc = "loop"
    /\ ~WithinToolIterations(chat.tool_iterations)
    /\ chat' = [chat EXCEPT !.pc = "returned",
                            !.ai_response_text =
                                FinalReply(chat.tool_iterations, chat.ai_response_text)]
    /\ UNCHANGED <<tie, invoices, lastOp, calcItems, calcTax, calcDisc, calcOut, txn>>

\* the steps process_user_message takes by itself once a message is in
ProcessStep ==
    \/ \E next_response \in ModelResponses, send_ok \in BOOLEAN :
          ToolLoopIteration(next_response, send_ok)
    \/ ToolLoopEnd

ChatNext ==
    \/ \E response \in ModelResponses : ReceiveUserMessage(response)
    \/ ServiceUnavailable
    \/ \E next_response \in ModelResponses, send_ok \in BOOLEAN :
          ToolLoopIteration(next_response, send_ok)
    \/ ToolLoopEnd

\* every await of the loop returns: the coroutine is never left suspended
SpecChat == Init /\ [][ChatNext]_vars /\ WF_vars(ProcessStep)

\* ---------------------------------------------------------------- payments
\* amount_paid_now of a PaymentRecordIn, in cents
PaymentDeltas == {8, 20}

PayCreate ==
    {c \in InvoiceCreate :
        /\ c.tax_percentage = Absent /\ c.discount_percentage = Absent
        /\ c.tax_amount = Unset /\ c.total_amount = Unset}

PayPatches ==
    {WithPayment(EmptyPatch, st, a) : st \in {"Unset"} \cup InvoiceStatusEnum, a \in PayAmounts}

\* POST /invoices/{id}/record-payment: 400 for a PAID or CANCELLED invoice
RecordPayment(id, amount_paid_now) ==
    /\ id \in DOMAIN invoices
    /\ invoices[id].amount_paid + amount_paid_now <= MaxPaid
    /\ IF invoices[id].status = PAID \/ invoices[id].status = CANCELLED
       THEN /\ UNCHANGED invoices
            /\ Done("record_payment_error", id, "Unset", amount_paid_now)
       ELSE /\ invoices' = [invoices EXCEPT ![id] = record_payment_for_invoice(@, amount_paid_now)]
            /\ Done("record_payment", id, "Unset", amount_paid_now)
    /\ UNCHANGED <<tie, calcItems, calcTax, calcDisc, calcOut, txn, chat>>

\* the conversational tool record_payment_func: no look at the status before the call
RecordPaymentFunc(id, amount_paid_now) ==
    /\ id \in DOMAIN invoices
    /\ invoices[id].amount_paid + amount_paid_now <= MaxPaid
    /\ invoices' = [invoices EXCEPT ![id] = record_payment_for_invoice(@, amount_paid_now)]
    /\ Done("record_payment_func", id, "Unset", amount_paid_now)
    /\ UNCHANGED <<tie, calcItems, calcTax, calcDisc, calcOut, txn, chat>>

PayNext ==
    \/ invoices = <<>> /\ \E invoice_in \in PayCreate : CreateInvoice(invoice_in)
    \/ \E id \in DOMAIN invoices, invoice_in \in PayPatches : UpdateInvoice(id, invoice_in)
    \/ \E id \in DOMAIN invoices, amount_paid_now \in PaymentDeltas :
          RecordPayment(id, amount_paid_now)
    \/ \E id \in DOMAIN invoices, amount_paid_now \in PaymentDeltas :
          RecordPaymentFunc(id, amount_paid_now)

SpecPay == Init /\ [][PayNext]_vars

\* ---------------------------------------------------------------- documents
DocCreate ==
  { c \in
    [invoice_number : {"PF-001"},
     due_date : {"2026-12-31"},
     currency : {"USD"},
     organization_id : {"org-1"},
     customer_id : {"cust-1"},
     comments_notes : {"FOB"},
     container_number : {NoString, "CONT-1"},
     seal_number : {NoString},
     hs_code : {NoString},
     invoice_type : InvoiceTypeEnum,
     status : InvoiceStatusEnum,
     tax_percentage : TaxChoices,
     discount_percentage : {Absent},
     tax_amount : ClientAmounts,
     discount_amount : {Unset},
     total_amount : {Unset},
     line_items : SeqsUpTo(ItemSet, MaxItems)] :
    \* a client tax_amount only on a bare DRAFT pro forma without a percentage
    c.tax_amount # Unset =>
        /\ c.tax_percentage = Absent /\ c.container_number = NoString
        /\ c.status = DRAFT /\ c.invoice_type = PRO_FORMA }

DocPatches == {WithPayment(EmptyPatch, "Unset", 20)}

\* the optional new_invoice_number / new_packing_list_number query parameter
NewInvoiceNumbers == {NoString, "", "C-100"}
NewPackingListNumbers == {NoString, "PL-100"}

DoneDocument(op, id, new_number) ==
    lastOp' = [op |-> op, id |-> id, status |-> "Unset", amount_paid |-> Unset,
               invoice_number |-> new_number]

\* the transformation done in place: the source row itself becomes the commercial invoice
TransformToCommercial_InPlace(id, new_invoice_number) ==
    /\ id \in DOMAIN invoices
    /\ Len(invoices) < MaxInvoices
    /\ IF TransformAllowed(invoices[id])
       THEN /\ invoices' = [invoices EXCEPT
                    ![id] = transform_pro_forma_to_commercial(@, new_invoice_number)]
            /\ DoneDocument("transform", id, new_invoice_number)
       ELSE /\ UNCHANGED invoices
            /\ DoneDocument("transform_error", id, new_invoice_number)
    /\ UNCHANGED <<tie, calcItems, calcTax, calcDisc, calcOut, txn, chat>>

\* POST /invoices/{id}/transform-to-commercial (and the tool of the same name)
TransformToCommercial(id, new_invoice_number) ==
    /\ id \in DOMAIN invoices
    /\ Len(invoices) < MaxInvoices
    /\ IF TransformAllowed(invoices[id])
       THEN /\ invoices' = Append(invoices,
                    transform_pro_forma_to_commercial(invoices[id], new_invoice_number))
            /\ DoneDocument("transform", id, new_invoice_number)
       ELSE /\ UNCHANGED invoices
            /\ DoneDocument("transform_error", id, new_invoice_number)
    /\ UNCHANGED <<tie, calcItems, calcTax, calcDisc, calcOut, txn, chat>>

\* POST /invoices/{id}/generate-packing-list (and the tool of the same name)
GeneratePackingList(id, new_packing_list_number) ==
    /\ id \in DOMAIN invoices
    /\ Len(invoices) < MaxInvoices
    /\ IF PackingListAllowed(invoices[id])
       THEN /\ invoices' = Append(invoices,
                    create_packing_list_from_commercial(invoices[id], new_packing_list_number))
            /\ DoneDocument("packing_list", id, new_packing_list_number)
       ELSE /\ UNCHANGED invoices
            /\ DoneDocument("packing_list_error", id, new_packing_list_number)
    /\ UNCHANGED <<tie, calcItems, calcTax, calcDisc, calcOut, txn, chat>>

DocNext ==
    \/ invoices = <<>> /\ \E invoice_in \in DocCreate : CreateInvoice(invoice_in)
    \/ \E id \in DOMAIN invoices, invoice_in \in DocPatches : UpdateInvoice(id, invoice_in)
    \/ \E id \in DOMAIN invoices, invoice_in \in DocPatches :
          UpdateInvoiceRejected(id, invoice_in)
    \/ \E id \in DOMAIN invoices, new_invoice_number \in NewInvoiceNumbers :
          TransformToCommercial(id, new_invoice_number)
    \/ \E id \in DOMAIN invoices, new_packing_list_number \in NewPackingListNumbers :
          GeneratePackingList(id, new_packing_list_number)

SpecDoc == Init /\ [][DocNext]_vars

\* ---------------------------------------------------------------- properties
Abs(x) == IF x < 0 THEN 0 - x ELSE x

\* v is num/den rounded to the nearest integer, whichever way an exact half went
IsRounded(v, num, den) == 2 * Abs(den * v - num) <= den

RECURSIVE SeqSum(_)
SeqSum(seq) == IF seq = <<>> THEN 0 ELSE Head(seq) + SeqSum(Tail(seq))

AuthoritativePresent(item) ==
    \/ item.price_per_type = CARTON /\ item.quantity_cartons # Absent
    \/ item.price_per_type = UNIT /\ item.quantity_units # Absent

AuthoritativeQuantity(item) ==
    IF item.price_per_type = CARTON THEN item.quantity_cartons ELSE item.quantity_units

OtherQuantity(item) ==
    IF item.price_per_type = CARTON THEN item.quantity_units ELSE item.quantity_cartons

\* effectiveQuantity of the Line Item Valuation with its fallback to the other field
EffectiveQuantity(item) ==
    IF AuthoritativeQuantity(item) # Absent THEN AuthoritativeQuantity(item)
    ELSE IF OtherQuantity(item) # Absent THEN OtherQuantity(item)
    ELSE 0

\* C1: a line item whose authoritative quantity field is present totals
\* price x that quantity rounded to 2 decimals (cartons for CARTON, units for
\* UNIT); with both quantity fields absent, or a zero quantity, the total is 0.
C1_LineTotal ==
    calcOut.kind # "none" =>
        \A k \in DOMAIN calcItems :
            LET item == calcItems[k]
                line_total == calcOut.lines[k]
            IN  /\ AuthoritativePresent(item) =>
                      /\ IsRounded(line_total, item.price * AuthoritativeQuantity(item), QtyDen)
                      /\ AuthoritativeQuantity(item) = 0 => line_total = 0
                /\ (item.quantity_units = Absent /\ item.quantity_cartons = Absent) =>
                      line_total = 0

C1_Witness ==
    /\ calcOut.kind = "line"
    /\ calcItems[1].price_per_type = CARTON
    /\ calcItems[1].quantity_cartons = MaxQty
    /\ calcItems[1].quantity_units = 0
    /\ calcItems[1].price = MaxPrice
    /\ calcOut.lines[1] > 0

\* C2: a line item whose authoritative quantity field is absent and whose other
\* quantity field is present totals price x the present quantity, for both
\* price_per_type values.
C2_Fallback ==
    calcOut.kind # "none" =>
        \A k \in DOMAIN calcItems :
            LET item == calcItems[k]
            IN  (~AuthoritativePresent(item) /\ OtherQuantity(item) # Absent) =>
                    IsRounded(calcOut.lines[k], item.price * OtherQuantity(item), QtyDen)

\* C3: the subtotal is the sum of the line totals, the tax is subtotal x
\* tax_percentage / 100 to the cent (0 for an absent or zero percentage), the
\* discount is subtotal x discount_percentage / 100 to the cent and at most the
\* subtotal, and total = subtotal + tax - discount, which is never negative.
C3_Financials ==
    calcOut.kind = "financials" =>
        /\ calcOut.subtotal = SeqSum(calcOut.lines)
        /\ IF calcTax = Absent \/ calcTax = 0 THEN calcOut.tax = 0
           ELSE IsRounded(calcOut.tax, calcOut.subtotal * calcTax, 100)
        /\ IF calcDisc = Absent \/ calcDisc = 0 THEN calcOut.discount = 0
           ELSE IsRounded(calcOut.discount, calcOut.subtotal * calcDisc, 100)
        /\ calcOut.discount <= calcOut.subtotal
        /\ calcOut.total = calcOut.subtotal + calcOut.tax - calcOut.discount
        /\ calcOut.total >= 0

C3_Witness ==
    /\ calcOut.kind = "financials"
    /\ Len(calcItems) = 2
    /\ calcTax = 30
    /\ calcDisc = 100
    /\ calcOut.subtotal > MaxPrice
    /\ calcOut.tax > 0
    /\ calcOut.discount = calcOut.subtotal
    /\ calcOut.total = calcOut.tax

\* the Aggregator run over an invoice row's current line items and percentages
Recomputed(invoice) ==
    calculate_invoice_financials(ItemCreatesOf(invoice.line_items),
                                 invoice.tax_percentage, invoice.discount_percentage)

\* C4: the four stored financial fields of every invoice are the Aggregator's
\* values for its current line items and percentages, so that the stored total
\* is subtotal + tax - discount.
C4_StoredFinancials ==
    \A id \in DOMAIN invoices :
        LET invoice == invoices[id]
            f == Recomputed(invoice)
        IN  /\ invoice.subtotal_amount = f.subtotal
            /\ invoice.tax_amount = f.tax
            /\ invoice.discount_amount = f.discount
            /\ invoice.total_amount = f.total
            /\ invoice.total_amount =
                   invoice.subtotal_amount + invoice.tax_amount - invoice.discount_amount

LineItemOps == {"add_line_item", "update_line_item", "delete_line_item"}

\* C5: after a line-item operation every stored line item has
\* line_total = price x effectiveQuantity and the stored totals are the
\* Aggregator's values over the whole resulting line-item set.
C5_LineItemOps ==
    lastOp.op \in LineItemOps =>
        LET invoice == invoices[lastOp.id]
            f == Recomputed(invoice)
        IN  /\ \A k \in DOMAIN invoice.line_items :
                   IsRounded(invoice.line_items[k].line_total,
                             invoice.line_items[k].price * EffectiveQuantity(invoice.line_items[k]),
                             QtyDen)
            /\ invoice.subtotal_amount = f.subtotal
            /\ invoice.tax_amount = f.tax
            /\ invoice.discount_amount = f.discount
            /\ invoice.total_amount = f.total

\* C6: an invoice whose status is PAID never has amount_paid above total_amount.
C6_PaidWithinTotal ==
    \A id \in DOMAIN invoices :
        invoices[id].status = PAID => invoices[id].amount_paid <= invoices[id].total_amount

\* C7: an update whose patch sets status = PAID leaves the invoice PAID with
\* amount_paid = the patch's amount, or, with no amount in the patch, the total
\* recomputed in that update.
C7_ExplicitPaid ==
    (lastOp.op = "update" /\ lastOp.status = PAID) =>
        LET invoice == invoices[lastOp.id]
        IN  /\ invoice.status = PAID
            /\ invoice.amount_paid =
                   IF lastOp.amount_paid # Unset THEN lastOp.amount_paid
                   ELSE Recomputed(invoice).total

C7_Witness ==
    /\ lastOp.op = "update"
    /\ lastOp.status = PAID
    /\ lastOp.amount_paid = Unset
    /\ invoices[lastOp.id].status = PAID
    /\ invoices[lastOp.id].tax_percentage = 30
    /\ Len(invoices[lastOp.id].line_items) = 2
    /\ invoices[lastOp.id].amount_paid = invoices[lastOp.id].total_amount
    /\ invoices[lastOp.id].amount_paid > 20

\* C8: an update whose patch sets status to UNPAID, OVERDUE or CANCELLED makes
\* amount_paid the patch's amount when it gives one, leaves it unchanged when it
\* gives none and the invoice was PARTIALLY_PAID, and makes it 0 otherwise; a
\* patch setting status = DRAFT with no amount makes it 0.
C8_ExplicitReset ==
    [][ (lastOp'.op = "update" /\ lastOp'.status \in {UNPAID, OVERDUE, CANCELLED, DRAFT}) =>
            LET before == invoices[lastOp'.id]
                after == invoices'[lastOp'.id]
            IN  /\ after.status = lastOp'.status
                /\ lastOp'.status # DRAFT =>
                       after.amount_paid =
                           IF lastOp'.amount_paid # Unset THEN lastOp'.amount_paid
                           ELSE IF before.status = PARTIALLY_PAID THEN before.amount_paid
                           ELSE 0
                /\ (lastOp'.status = DRAFT /\ lastOp'.amount_paid = Unset) =>
                       after.amount_paid = 0 ]_vars

C8_Witness ==
    /\ lastOp.op = "update"
    /\ lastOp.status = CANCELLED
    /\ lastOp.amount_paid = Unset
    /\ invoices[lastOp.id].status = CANCELLED
    /\ invoices[lastOp.id].amount_paid = 20

\* C9: an update whose patch gives amount_paid >= the recomputed total (> 0) and
\* no status leaves the invoice PAID with amount_paid = total_amount.
C9_OverpaymentClamped ==
    (/\ lastOp.op = "update"
     /\ lastOp.status = "Unset"
     /\ lastOp.amount_paid # Unset
     /\ invoices[lastOp.id].total_amount > 0
     /\ lastOp.amount_paid >= invoices[lastOp.id].total_amount) =>
        /\ invoices[lastOp.id].status = PAID
        /\ invoices[lastOp.id].amount_paid = invoices[lastOp.id].total_amount

\* C10: an update whose patch gives 0 < amount_paid < total and no status leaves
\* the invoice PARTIALLY_PAID with that amount, whatever its status was.
C10_PartialPayment ==
    [][ (/\ lastOp'.op = "update"
         /\ lastOp'.status = "Unset"
         /\ lastOp'.amount_paid > 0
         /\ lastOp'.amount_paid < invoices'[lastOp'.id].total_amount) =>
            /\ invoices[lastOp'.id].status \in InvoiceStatusEnum
            /\ invoices'[lastOp'.id].status = PARTIALLY_PAID
            /\ invoices'[lastOp'.id].amount_paid = lastOp'.amount_paid ]_vars

C10_Witness ==
    /\ lastOp.op = "update"
    /\ lastOp.status = "Unset"
    /\ lastOp.amount_paid = 20
    /\ invoices[lastOp.id].status = PARTIALLY_PAID
    /\ invoices[lastOp.id].amount_paid = 20
    /\ invoices[lastOp.id].total_amount > 20

\* C11: an update whose patch gives amount_paid <= 0 and no status leaves the
\* status as it was when the invoice was DRAFT or CANCELLED and makes it UNPAID
\* when it was UNPAID, PARTIALLY_PAID, PAID or OVERDUE.
C11_ZeroAmount ==
    [][ (/\ lastOp'.op = "update"
         /\ lastOp'.status = "Unset"
         /\ lastOp'.amount_paid # Unset
         /\ lastOp'.amount_paid <= 0) =>
            LET before == invoices[lastOp'.id]
                after == invoices'[lastOp'.id]
            IN  /\ before.status \in {DRAFT, CANCELLED} => after.status = before.status
                /\ before.status \in {UNPAID, PARTIALLY_PAID, PAID, OVERDUE} =>
                       after.status = UNPAID
                /\ after.amount_paid = lastOp'.amount_paid ]_vars

C11_Witness ==
    /\ lastOp.op = "update"
    /\ lastOp.status = "Unset"
    /\ lastOp.amount_paid = 0
    /\ invoices[lastOp.id].status = CANCELLED
    /\ invoices[lastOp.id].amount_paid = 0
    /\ invoices[lastOp.id].total_amount > 0

\* C12: an update whose patch names a status leaves the invoice in exactly that
\* status, whatever amount_paid the same patch gives (also one at or above the
\* total, or zero): the amount infers a status only in a patch without one.
C12_ExplicitStatusWins ==
    (lastOp.op = "update" /\ lastOp.status # "Unset") =>
        invoices[lastOp.id].status = lastOp.status

C12_Witness ==
    /\ lastOp.op = "update"
    /\ lastOp.status = UNPAID
    /\ lastOp.amount_paid = 20
    /\ invoices[lastOp.id].status = UNPAID
    /\ invoices[lastOp.id].amount_paid = 20
    /\ invoices[lastOp.id].total_amount > 0
    /\ invoices[lastOp.id].total_amount <= 20

RecordOps == {"record_payment", "record_payment_func"}

StatusRank(status) ==
    IF status = UNPAID THEN 1 ELSE IF status = PARTIALLY_PAID THEN 2 ELSE 3

\* C14: a recorded payment never moves the status back in the order
\* UNPAID -> PARTIALLY_PAID -> PAID.
C14_StatusMonotone ==
    [][ (/\ lastOp'.op \in RecordOps
         /\ invoices[lastOp'.id].status \in {UNPAID, PARTIALLY_PAID, PAID}) =>
            /\ invoices'[lastOp'.id].status \in {UNPAID, PARTIALLY_PAID, PAID}
            /\ StatusRank(invoices'[lastOp'.id].status) >=
                   StatusRank(invoices[lastOp'.id].status) ]_vars

\* C15: a payment recorded against a PAID or CANCELLED invoice is rejected and
\* leaves the invoice as it was, through the endpoint and through the tool.
C15_TerminalRejected ==
    [][ (/\ lastOp'.op \in RecordOps \cup {"record_payment_error"}
         /\ invoices[lastOp'.id].status \in {PAID, CANCELLED}) =>
            /\ lastOp'.op = "record_payment_error"
            /\ invoices' = invoices ]_vars

\* C16: a transformation of an invoice that is not PRO_FORMA, and a packing list
\* asked of an invoice that is not COMMERCIAL, fail, add no invoice and leave
\* every stored invoice and line item as it was.
C16_TransformPreconditions ==
    [][ (\/ /\ lastOp'.op \in {"transform", "transform_error"}
            /\ invoices[lastOp'.id].invoice_type # PRO_FORMA
         \/ /\ lastOp'.op \in {"packing_list", "packing_list_error"}
            /\ invoices[lastOp'.id].invoice_type # COMMERCIAL) =>
            /\ lastOp'.op \in {"transform_error", "packing_list_error"}
            /\ invoices' = invoices ]_vars

C16_Witness ==
    /\ lastOp.op = "transform_error"
    /\ invoices[lastOp.id].invoice_type = COMMERCIAL
    /\ Len(invoices[lastOp.id].line_items) = 2
    /\ Len(invoices) = 1

\* the row a transformation has just appended
NewInvoice == invoices'[Len(invoices')]

\* C17: a transformation of a PRO_FORMA invoice, whatever its status, adds one
\* new invoice that is COMMERCIAL and DRAFT, is numbered by the new number when
\* one is given (a blank one is none) and by the source number with "-COMM"
\* otherwise, and has the source's line items in the same order with the same
\* description, quantities, price_per_type and price.
C17_TransformResult ==
    [][ lastOp'.op = "transform" =>
            LET source == invoices[lastOp'.id]
            IN  /\ Len(invoices') = Len(invoices) + 1
                /\ lastOp'.id # Len(invoices')
                /\ NewInvoice.invoice_type = COMMERCIAL
                /\ NewInvoice.status = DRAFT
                /\ NewInvoice.invoice_number =
                       IF lastOp'.invoice_number \in {NoString, ""}
                       THEN source.invoice_number \o "-COMM"
                       ELSE lastOp'.invoice_number
                /\ Len(NewInvoice.line_items) = Len(source.line_items)
                /\ \A k \in DOMAIN source.line_items :
                       LET a == source.line_items[k]
                           b == NewInvoice.line_items[k]
                       IN  /\ b.item_description = a.item_description
                           /\ b.quantity_units = a.quantity_units
                           /\ b.quantity_cartons = a.quantity_cartons
                           /\ b.price_per_type = a.price_per_type
                           /\ b.price = a.price ]_vars

C17_Witness ==
    /\ lastOp.op = "transform"
    /\ lastOp.invoice_number = NoString
    /\ invoices[lastOp.id].status = PAID
    /\ Len(invoices[lastOp.id].line_items) = 2
    /\ invoices[lastOp.id].line_items[1] # invoices[lastOp.id].line_items[2]
    /\ Len(invoices) = 2
    /\ invoices[2].invoice_number = "PF-001-COMM"
    /\ invoices[2].status = DRAFT
    /\ invoices[2].line_items = invoices[lastOp.id].line_items

\* C18: a transformation, accepted or refused, leaves its source and every other
\* stored invoice exactly as they were; the table grows by one row when it is
\* accepted and by none when it is refused.
C18_SourceUntouched ==
    [][ lastOp'.op \in {"transform", "transform_error"} =>
            /\ invoices'[lastOp'.id] = invoices[lastOp'.id]
            /\ SubSeq(invoices', 1, Len(invoices)) = invoices
            /\ Len(invoices') =
                   Len(invoices) + (IF lastOp'.op = "transform" THEN 1 ELSE 0) ]_vars

C18_Witness ==
    /\ lastOp.op = "transform"
    /\ invoices[lastOp.id].invoice_type = PRO_FORMA
    /\ invoices[lastOp.id].status = PARTIALLY_PAID
    /\ invoices[lastOp.id].amount_paid = 20
    /\ invoices[lastOp.id].total_amount > 20
    /\ Len(invoices) = 3
    /\ invoices[3].amount_paid = 0

\* C19: the invoice a transformation produces has the source's customer,
\* organization, currency, percentages, due date, comments, container number,
\* seal number, HS code and B/L number, and each line item has the source
\* item's weights and volume.
C19_TransformCarriesOver ==
    [][ lastOp'.op = "transform" =>
            LET source == invoices[lastOp'.id]
            IN  /\ NewInvoice.customer_id = source.customer_id
                /\ NewInvoice.organization_id = source.organization_id
                /\ NewInvoice.currency = source.currency
                /\ NewInvoice.tax_percentage = source.tax_percentage
                /\ NewInvoice.discount_percentage = source.discount_percentage
                /\ NewInvoice.due_date = source.due_date
                /\ NewInvoice.comments_notes = source.comments_notes
                /\ NewInvoice.container_number = source.container_number
                /\ NewInvoice.seal_number = source.seal_number
                /\ NewInvoice.hs_code = source.hs_code
                /\ NewInvoice.bl_number = source.bl_number
                /\ \A k \in DOMAIN source.line_items :
                       /\ NewInvoice.line_items[k].net_weight_kgs =
                              source.line_items[k].net_weight_kgs
                       /\ NewInvoice.line_items[k].gross_weight_kgs =
                              source.line_items[k].gross_weight_kgs
                       /\ NewInvoice.line_items[k].measurement_cbm =
                              source.line_items[k].measurement_cbm ]_vars

IsStoredCopyOf(li_orm, item_data) ==
    /\ li_orm.item_description = item_data.item_description
    /\ li_orm.price = item_data.price
    /\ li_orm.quantity_units = item_data.quantity_units
    /\ li_orm.quantity_cartons = item_data.quantity_cartons
    /\ li_orm.price_per_type = item_data.price_per_type
    /\ IsRounded(li_orm.line_total, item_data.price * EffectiveQuantity(item_data), QtyDen)

\* C21: an update whose patch provides line_items = L (the empty list
\* included) leaves the invoice with exactly the items of L in order, each
\* with its line total recomputed, none of the previous items, and stored
\* totals that are the aggregation of L: all zero for the empty list.
C21_LineItemsReplaced ==
    \A id \in DOMAIN invoices : \A invoice_in \in InvoiceUpdate :
        (invoice_in.line_items_set /\ UpdateAccepts(invoices[id], invoice_in)) =>
            LET L == invoice_in.line_items
                after == update_invoice_with_items(invoices[id], invoice_in)
                f == Recomputed(after)
            IN  /\ Len(after.line_items) = Len(L)
                /\ \A k \in 1..Len(L) : IsStoredCopyOf(after.line_items[k], L[k])
                /\ after.subtotal_amount =
                       SeqSum([k \in 1..Len(L) |-> after.line_items[k].line_total])
                /\ after.tax_amount = f.tax
                /\ after.discount_amount = f.discount
                /\ after.total_amount =
                       after.subtotal_amount + after.tax_amount - after.discount_amount
                /\ L = <<>> =>
                       /\ after.subtotal_amount = 0 /\ after.tax_amount = 0
                       /\ after.discount_amount = 0 /\ after.total_amount = 0

\* the fields of the header setattr loop that a patch can name
HeaderTextFields ==
    {"invoice_number", "due_date", "currency", "customer_id", "comments_notes",
     "container_number", "seal_number", "hs_code", "invoice_type"}

\* C22: an update leaves every header field its patch does not send as it
\* was (status and amount_paid when the patch sends neither), and a patch
\* without line_items leaves the line items, their order, prices, quantities
\* and line totals as they were.
C22_PartialUpdateFrame ==
    [][\A id \in DOMAIN invoices : \A invoice_in \in HeaderPatches :
          UpdateInvoice(id, invoice_in) =>
              /\ \A field \in HeaderTextFields :
                     invoice_in[field] = "Unset" => invoices'[id][field] = invoices[id][field]
              /\ invoice_in.tax_percentage = Unset =>
                     invoices'[id].tax_percentage = invoices[id].tax_percentage
              /\ invoice_in.discount_percentage = Unset =>
                     invoices'[id].discount_percentage = invoices[id].discount_percentage
              /\ invoices'[id].organization_id = invoices[id].organization_id
              /\ invoices'[id].bl_number = invoices[id].bl_number
              /\ (invoice_in.status = "Unset" /\ invoice_in.amount_paid = Unset) =>
                     /\ invoices'[id].status = invoices[id].status
                     /\ invoices'[id].amount_paid = invoices[id].amount_paid
              /\ ~invoice_in.line_items_set =>
                     invoices'[id].line_items = invoices[id].line_items]_vars

\* an update has cleared comments_notes and nothing else of the header
C22_Witness ==
    /\ lastOp.op = "update"
    /\ invoices[1].comments_notes = NoString
    /\ invoices[1].invoice_number = "INV-001"
    /\ invoices[1].due_date = "2026-12-31"
    /\ invoices[1].container_number = "CONT-1"
    /\ invoices[1].seal_number = "SEAL-1"
    /\ invoices[1].tax_percentage = 30
    /\ Len(invoices[1].line_items) = 1

\* C25: no operation on an existing invoice changes its invoice_type: in
\* every step each invoice already stored keeps the type it had.
C25_InvoiceTypeImmutable ==
    [][\A id \in DOMAIN invoices :
          invoices'[id].invoice_type = invoices[id].invoice_type]_vars

\* patches that change no line item and no percentage
UnchangedPatches == {EmptyPatch} \cup DocPatches

\* C23: for every stored invoice an update whose patch changes no line item and
\* no percentage succeeds, leaves subtotal_amount, tax_amount, discount_amount
\* and total_amount as they were, and applied twice gives the state it gives
\* applied once.
C23_RecomputationIdempotent ==
    /\ lastOp.op # "update_error"
    /\ \A id \in DOMAIN invoices : \A invoice_in \in UnchangedPatches :
           LET before == invoices[id]
               once == update_invoice_with_items(before, invoice_in)
               twice == update_invoice_with_items(once, invoice_in)
           IN  /\ UpdateAccepts(before, invoice_in)
               /\ once.subtotal_amount = before.subtotal_amount
               /\ once.tax_amount = before.tax_amount
               /\ once.discount_amount = before.discount_amount
               /\ once.total_amount = before.total_amount
               /\ twice = once

LineItemErrors == {"add_line_item_error", "update_line_item_error", "delete_line_item_error"}

\* C24: a line-item operation invoked for a parent invoice that cannot be
\* found ends in a not-found error and persists no change.
C24_MissingParentFails ==
    [][(lastOp'.op \in LineItemOps \cup LineItemErrors /\ lastOp'.id \notin DOMAIN invoices) =>
          /\ lastOp'.op \in LineItemErrors
          /\ invoices' = invoices]_vars

\* C26: whatever the interleaving of two concurrent mutations of an invoice,
\* once both have completed the stored subtotal and total are the aggregation
\* of the line items then stored for it.
C26_ConcurrentTotalsConsistent ==
    (\A session \in Sessions : txn[session].pc = "done") =>
        \A id \in DOMAIN invoices :
            /\ invoices[id].subtotal_amount = Recomputed(invoices[id]).subtotal
            /\ invoices[id].total_amount = Recomputed(invoices[id]).total

\* C27: a created invoice has the status its request gave (DRAFT when it gave
\* none) and amount_paid 0 whatever that status, PAID with a positive total
\* included, and its totals are computed from the request's line items and
\* percentages.
C27_CreatedInvoice ==
    lastOp.op = "create" =>
        LET invoice == invoices[lastOp.id]
            f == Recomputed(invoice)
        IN  /\ invoice.status = IF lastOp.status = "Unset" THEN DRAFT ELSE lastOp.status
            /\ invoice.amount_paid = 0
            /\ invoice.subtotal_amount = f.subtotal
            /\ invoice.tax_amount = f.tax
            /\ invoice.discount_amount = f.discount
            /\ invoice.total_amount = f.total

\* C28: the COMMERCIAL invoice a transformation produces has totals computed
\* from the copied line items and percentages (subtotal the sum of the line
\* totals, each price x quantity to the cent), whatever totals the PRO_FORMA
\* stored, and amount_paid 0 whatever the PRO_FORMA's amount_paid and status.
C28_TransformFreshTotals ==
    [][ lastOp'.op = "transform" =>
            LET source == invoices[lastOp'.id]
                lines == [k \in 1..Len(NewInvoice.line_items) |->
                             NewInvoice.line_items[k].line_total]
            IN  /\ NewInvoice.tax_percentage = source.tax_percentage
                /\ NewInvoice.discount_percentage = source.discount_percentage
                /\ \A k \in DOMAIN source.line_items :
                       AuthoritativePresent(source.line_items[k]) =>
                           IsRounded(lines[k],
                                     source.line_items[k].price
                                        * AuthoritativeQuantity(source.line_items[k]), QtyDen)
                /\ NewInvoice.subtotal_amount = SeqSum(lines)
                /\ IF source.tax_percentage = Absent THEN NewInvoice.tax_amount = 0
                   ELSE IsRounded(NewInvoice.tax_amount,
                                  NewInvoice.subtotal_amount * source.tax_percentage, 100)
                /\ IF source.discount_percentage = Absent THEN NewInvoice.discount_amount = 0
                   ELSE IsRounded(NewInvoice.discount_amount,
                                  NewInvoice.subtotal_amount * source.discount_percentage, 100)
                /\ NewInvoice.total_amount = NewInvoice.subtotal_amount
                       + NewInvoice.tax_amount - NewInvoice.discount_amount
                /\ NewInvoice.amount_paid = 0 ]_vars

\* a pro forma storing the client's tax amount and a payment was transformed
C28_Witness ==
    /\ lastOp.op = "transform"
    /\ invoices[lastOp.id].tax_amount = 7
    /\ invoices[lastOp.id].amount_paid = 20
    /\ invoices[lastOp.id].total_amount > 0
    /\ invoices[Len(invoices)].invoice_type = COMMERCIAL
    /\ invoices[Len(invoices)].subtotal_amount = invoices[lastOp.id].subtotal_amount
    /\ invoices[Len(invoices)].tax_amount = 0
    /\ invoices[Len(invoices)].amount_paid = 0

\* C29: a line-item operation leaves the parent's status and amount_paid as
\* they were, whatever the status: it changes nothing of the parent but its
\* line items and its four derived amounts.
C29_LineItemOpsKeepPayment ==
    [][ lastOp'.op \in LineItemOps =>
            LET before == invoices[lastOp'.id]
                after == invoices'[lastOp'.id]
            IN  /\ after.status = before.status
                /\ after.amount_paid = before.amount_paid
                /\ [after EXCEPT !.line_items = before.line_items,
                                 !.subtotal_amount = before.subtotal_amount,
                                 !.tax_amount = before.tax_amount,
                                 !.discount_amount = before.discount_amount,
                                 !.total_amount = before.total_amount] = before ]_vars

\* a PAID invoice with a payment recorded lost its only line item
C29_Witness ==
    /\ lastOp.op = "delete_line_item"
    /\ invoices[lastOp.id].status = PAID
    /\ invoices[lastOp.id].amount_paid = 20
    /\ invoices[lastOp.id].line_items = <<>>
    /\ invoices[lastOp.id].total_amount = 0

\* C30: the tool loop terminates: a message being processed is always answered,
\* after at most MAX_TOOL_ITERATIONS = 7 tool calls; a request for
\* ask_clarifying_question returns at once with the question as reply and
\* follow-up, and a request for an unknown tool at once with an error reply,
\* neither executing a tool; the bound reached without a final text returns
\* the fallback reply.
C30_ToolLoopTerminates ==
    /\ [](chat.tool_calls <= 7 /\ chat.tool_iterations <= 7)
    /\ [][ (chat.pc = "loop" /\ chat.tool_iterations = 7) =>
               /\ chat'.pc = "returned"
               /\ chat'.tool_calls = chat.tool_calls
               /\ invoices' = invoices
               /\ chat'.ai_response_text = "fallback" ]_vars
    /\ [][ (chat.pc = "loop" /\ chat'.pc # "loop"
            /\ chat.current_response = "ask_clarifying_question"
            /\ chat.tool_iterations < 7) =>
               /\ chat'.pc = "returned"
               /\ chat'.tool_calls = chat.tool_calls
               /\ invoices' = invoices
               /\ chat'.ai_response_text = "question_to_user"
               /\ chat'.follow_up_question_for_user = "question_to_user" ]_vars
    /\ [][ (chat.pc = "loop" /\ chat'.pc # "loop"
            /\ chat.current_response = "made_up_tool"
            /\ chat.tool_iterations < 7) =>
               /\ chat'.pc = "returned"
               /\ chat'.tool_calls = chat.tool_calls
               /\ invoices' = invoices
               /\ chat'.ai_response_text = "unknown_tool_error" ]_vars
    /\ (chat.pc = "loop") ~> (chat.pc = "returned")

\* seven tools were executed and the fallback reply returned
C30_Witness ==
    /\ chat.pc = "returned"
    /\ chat.tool_iterations = 7
    /\ chat.tool_calls = 7
    /\ chat.ai_response_text = "fallback"
    /\ Len(invoices) = MaxInvoices

====
